---------------------------- MODULE Spec2Model ----------------------------
(***************************************************************************)
(* The biopacndt sample clients (autothreshold, simplesample,              *)
(* singleconnection, multiconnect, plotchan) as one state machine.         *)
(*                                                                         *)
(* One behaviour is one run of one script against an AcqKnowledge server.  *)
(* The main procedure of the script is a program counter `pc` walking the  *)
(* call order of its main(); the server is the variable `acq` (an          *)
(* acquisition is in progress) that the client toggles and that the server *)
(* may clear by itself when the acquisition ends; the data server thread   *)
(* delivers frames to the registered callback; autothreshold's timer       *)
(* thread is `timerPc`.  Voltages are integers (Volts).                    *)
(***************************************************************************)
EXTENDS Integers, Sequences, FiniteSets

VARIABLES
    script,         \* which script this run executes
    pc,             \* position of main()
    acqServer,      \* result of AcqNdtQuickConnect: "unset", "none", "server"
    acq,            \* server side: an acquisition is in progress
    inProg,         \* the getAcquisitionInProgress() result main is about to test
    mainCall,       \* the last library call main() issued
    nEnabled,       \* len(enabledChannels) (plotchan: len(calcChannels))
    dsCreated,      \* data servers constructed (by index)
    dsStarted,      \* data servers on which Start() was called
    dsStopped,      \* data servers on which Stop() was called
    recCreated,     \* channel recorders constructed
    recClosed,      \* channel recorders on which Close() was called
    stopLog,        \* history: the data servers Stop() was called on, in order
    closeLog,       \* history: the recorders Close() was called on, in order
    startIssued,    \* the script's own start toggle has been issued
    waitReturned,   \* WaitForAcquisitionEnd() has returned
    timerPc,        \* ChangeAnalogOutputThread: "unstarted", "sleeping", "done"
    outLog,         \* values written by setOutputChannel, in order
    queueSize,      \* AutoThreshold.__queueSize
    queue,          \* AutoThreshold.__queue
    oldMaxValue,    \* AutoThreshold.__oldMaxValue
    stopProcessing, \* AutoThreshold.__stopProcessing
    processed,      \* history: the samples dataHandler took from its frames
    nFrames,        \* history: frames delivered to the autothreshold callback
    lastMon,        \* history: monitored channel's amplitude in the last frame
    hToggles,       \* history: toggleAcquisition calls issued by dataHandler
    hQueries,       \* history: getAcquisitionInProgress calls issued by dataHandler
    buttonEnabled,  \* plotchan: the Start Acquisition button is enabled
    chanData        \* plotchan: len(PlotData.__chanData)

vars == <<script, pc, acqServer, acq, inProg, mainCall, nEnabled,
          dsCreated, dsStarted, dsStopped, recCreated, recClosed, stopLog,
          closeLog, startIssued,
          waitReturned, timerPc, outLog, queueSize, queue, oldMaxValue,
          stopProcessing, processed, nFrames, lastMon, hToggles, hQueries,
          buttonEnabled, chanData>>

mainVars == <<script, pc, acqServer, inProg, nEnabled, dsCreated,
              dsStarted, dsStopped, recCreated, recClosed, stopLog, closeLog,
              startIssued, waitReturned>>
threshVars == <<queueSize, queue, oldMaxValue, stopProcessing, processed,
                nFrames, lastMon, hToggles, hQueries>>
timerVars == <<timerPc, outLog>>
plotVars == <<buttonEnabled, chanData>>

----------------------------------------------------------------------------
(* Bounds of the model *)

\* frames delivered to a callback in one run
MaxFrames == 5
\* channels DeliverAllEnabledChannels / GetChannels may return
MaxChannels == 2
\* channel samples per second (getSamplingRate() / SamplingDivider)
MaxChanRate == 1

(* Program constants *)

\* seconds of data kept in the window (autothreshold.py:126)
WindowSeconds == 3
\* AutoThreshold.__maxThreshold (autothreshold.py:237)
MaxThreshold == 1
\* voltage written by main (autothreshold.py:159)
ZeroVolts == 0
\* voltage written by the timer thread (autothreshold.py:208)
RaisedVolts == 5

Scripts == {"autothreshold", "simplesample", "singleconnection",
            "multiconnect", "plotchan"}

\* amplitudes a channel sample may take, in Volts
Samples == {-1, 0, 2}
NoSample == 99

\* The i-th enabled channel of the template: the first is analog 0, the
\* next ones are analog 1 (shares its type), digital 1 (shares nothing with
\* it), digital 0 (shares its index), analog 2, ...
Chan(i) ==
    [Type  |-> IF (i - 1) % 4 \in {0, 1} THEN "analog" ELSE "digital",
     Index |-> 2 * ((i - 1) \div 4) + (IF (i - 1) % 4 \in {1, 2} THEN 1 ELSE 0)]

----------------------------------------------------------------------------
(* Control flow of the five main() procedures *)

\* Variants of the orders below, each with two calls exchanged.
AutothresholdOrder_StartBeforeServer ==
    <<"connect", "check", "halt", "load", "method", "deliver", "construct",
      "mkserver", "zero", "thread", "start", "startds", "wait", "stop">>

AutothresholdOrder_ThreadBeforeZero ==
    <<"connect", "check", "halt", "load", "method", "deliver", "construct",
      "mkserver", "startds", "thread", "zero", "start", "wait", "stop">>

MulticonnectOrder_CloseBeforeStop ==
    <<"connect", "check", "halt", "load", "method", "deliver", "port",
      "setup", "start", "wait", "close", "stop">>

\* The order of the steps of each main(), one label per call group.
AutothresholdOrder ==
    <<"connect", "check", "halt", "load", "method", "deliver", "construct",
      "mkserver", "startds", "zero", "thread", "start", "wait", "stop">>

SimplesampleOrder ==
    <<"connect", "check", "halt", "load", "label", "start", "verify">>

SingleconnectionOrder ==
    <<"connect", "check", "halt", "load", "method", "deliver", "recorder",
      "mkserver", "startds", "start", "wait", "stop", "close">>

MulticonnectOrder ==
    <<"connect", "check", "halt", "load", "method", "deliver", "port",
      "setup", "start", "wait", "stop", "close">>

PlotchanOrder ==
    <<"connect", "check", "halt", "load", "method", "deliver", "mkserver",
      "startds", "mainloop", "stop">>

MainOrder(s) ==
    CASE s = "autothreshold" -> AutothresholdOrder
      [] s = "simplesample" -> SimplesampleOrder
      [] s = "singleconnection" -> SingleconnectionOrder
      [] s = "multiconnect" -> MulticonnectOrder
      [] s = "plotchan" -> PlotchanOrder

\* The step that follows step p in main() of script s.
Succ(s, p) ==
    LET o == MainOrder(s)
        k == CHOOSE j \in 1..Len(o) : o[j] = p
    IN  IF k = Len(o) THEN "done" ELSE o[k + 1]

\* the print without the sys.exit()
AfterConnect_NoExit(s, server) == Succ(s, "connect")

\* if not acqServer: print ...; sys.exit()
AfterConnect(s, server) ==
    IF server = "none" THEN "exited" ELSE Succ(s, "connect")

\* The connection method each script asks for.
WantedMethod(s) == IF s = "multiconnect" THEN "multiple" ELSE "single"

Min(S) == CHOOSE x \in S : \A y \in S : x <= y

----------------------------------------------------------------------------
(* AutoThreshold: the pure parts of dataHandler *)

\* The channel whose voltages are examined: enabledChannels[0].
ChannelToMonitor == Chan(1)

\* The loop over channelsInSlice: frameIndex advances while the channel
\* differs from ours in Type and in Index, and stops at the first that does
\* not.  Zero-based, Len(channelsInSlice) when the loop runs out.
RECURSIVE FrameIndexFrom(_, _, _)
FrameIndexFrom(channel, channelsInSlice, k) ==
    IF k = Len(channelsInSlice) THEN k
    ELSE IF channel.Type # channelsInSlice[k + 1].Type
             /\ channel.Index # channelsInSlice[k + 1].Index
         THEN FrameIndexFrom(channel, channelsInSlice, k + 1)
         ELSE k

FrameIndex(channel, channelsInSlice) ==
    FrameIndexFrom(channel, channelsInSlice, 0)

\* the append without the pop
ShiftQueue_NoPop(q, sample) == Append(q, sample)

\* self.__queue.pop(0); self.__queue.append(sample)
ShiftQueue(q, sample) == Append(Tail(q), sample)

\* maxValue = q[0]; for d in q: if d > maxValue: maxValue = d
RECURSIVE WindowMaxFrom(_, _, _)
WindowMaxFrom(q, k, maxValue) ==
    IF k > Len(q) THEN maxValue
    ELSE WindowMaxFrom(q, k + 1, IF q[k] > maxValue THEN q[k] ELSE maxValue)

\* the loop stops one element short of the end of the queue
WindowMax_SkipsLast(q) == WindowMaxFrom(SubSeq(q, 1, Len(q) - 1), 1, q[1])

WindowMax(q) == WindowMaxFrom(q, 1, q[1])

\* voltChange > self.__maxThreshold
ExceedsThreshold_Inclusive(voltChange) == voltChange >= MaxThreshold

ExceedsThreshold(voltChange) == voltChange > MaxThreshold

\* The frames the data server can hand to a callback when n channels are
\* enabled: the channels that have a sample at this hardware position, in
\* the order of enabledChannels, each with its amplitude.
Ascending(S) ==
    LET RECURSIVE Asc(_)
        Asc(T) == IF T = {} THEN <<>> ELSE <<Min(T)>> \o Asc(T \ {Min(T)})
    IN  Asc(S)

FramesOf(n) ==
    UNION { { [chans |-> [k \in 1..Len(Ascending(present)) |-> Chan(Ascending(present)[k])],
               amps  |-> [k \in 1..Len(Ascending(present)) |-> a[Ascending(present)[k]]]]
              : a \in [present -> Samples] }
            : present \in (SUBSET (1..n)) \ {{}} }

\* The amplitude of channel ch in frame f, NoSample when it has none.
AmplitudeOf(f, ch) ==
    IF \E k \in 1..Len(f.chans) : f.chans[k] = ch
    THEN f.amps[CHOOSE k \in 1..Len(f.chans) : f.chans[k] = ch]
    ELSE NoSample

----------------------------------------------------------------------------
(* Initial state: a script is about to run; the server may already be
   acquiring. *)

Init ==
    /\ script \in Scripts
    /\ pc = "connect"
    /\ acqServer = "unset"
    /\ acq \in BOOLEAN
    /\ inProg = FALSE
    /\ mainCall = "none"
    /\ nEnabled = 0
    /\ dsCreated = {} /\ dsStarted = {} /\ dsStopped = {}
    /\ recCreated = {} /\ recClosed = {}
    /\ stopLog = <<>> /\ closeLog = <<>>
    /\ startIssued = FALSE
    /\ waitReturned = FALSE
    /\ timerPc = "unstarted"
    /\ outLog = <<>>
    /\ queueSize = 0
    /\ queue = <<>>
    /\ oldMaxValue = 0
    /\ stopProcessing = FALSE
    /\ processed = <<>>
    /\ nFrames = 0
    /\ lastMon = NoSample
    /\ hToggles = 0
    /\ hQueries = 0
    /\ buttonEnabled = FALSE
    /\ chanData = 0

----------------------------------------------------------------------------
(* The steps of main() *)

\* acqServer = biopacndt.AcqNdtQuickConnect(); if not acqServer: sys.exit()
QuickConnect ==
    /\ pc = "connect"
    /\ \E found \in {"none", "server"} :
          /\ acqServer' = found
          /\ pc' = AfterConnect(script, found)
    /\ mainCall' = "AcqNdtQuickConnect"
    /\ UNCHANGED <<script, acq, inProg, nEnabled, dsCreated,
                   dsStarted, dsStopped, recCreated, recClosed, startIssued,
                   waitReturned, stopLog, closeLog, timerVars, threshVars,
                   plotVars>>

\* if acqServer.getAcquisitionInProgress():
CheckRunning ==
    /\ pc = "check"
    /\ inProg' = acq
    /\ mainCall' = "getAcquisitionInProgress"
    /\ pc' = Succ(script, "check")
    /\ UNCHANGED <<script, acqServer, acq, nEnabled, dsCreated,
                   dsStarted, dsStopped, recCreated, recClosed, startIssued,
                   waitReturned, stopLog, closeLog, timerVars, threshVars,
                   plotVars>>

\*     acqServer.toggleAcquisition()
HaltRunning ==
    /\ pc = "halt"
    /\ IF inProg
       THEN /\ acq' = ~acq
            /\ mainCall' = "toggleAcquisition"
       ELSE UNCHANGED <<acq, mainCall>>
    /\ inProg' = FALSE
    /\ pc' = Succ(script, "halt")
    /\ UNCHANGED <<script, acqServer, nEnabled, dsCreated,
                   dsStarted, dsStopped, recCreated, recClosed, startIssued,
                   waitReturned, stopLog, closeLog, timerVars, threshVars,
                   plotVars>>

\* acqServer.LoadTemplate(templateName)
LoadTemplate ==
    /\ pc = "load"
    /\ mainCall' = "LoadTemplate"
    /\ pc' = Succ(script, "load")
    /\ UNCHANGED <<script, acqServer, acq, inProg, nEnabled, dsCreated,
                   dsStarted, dsStopped, recCreated, recClosed, startIssued,
                   waitReturned, stopLog, closeLog, timerVars, threshVars,
                   plotVars>>

\* if acqServer.getDataConnectionMethod() != wanted:
\*     acqServer.changeDataConnectionMethod(wanted)
SetConnectionMethod ==
    /\ pc = "method"
    /\ \E current \in {"single", "multiple"} :
          mainCall' = IF current # WantedMethod(script)
                      THEN "changeDataConnectionMethod"
                      ELSE "getDataConnectionMethod"
    /\ pc' = Succ(script, "method")
    /\ UNCHANGED <<script, acqServer, acq, inProg, nEnabled,
                   dsCreated, dsStarted, dsStopped, recCreated, recClosed,
                   startIssued, waitReturned, stopLog, closeLog, timerVars,
                   threshVars,
                   plotVars>>

\* enabledChannels = acqServer.DeliverAllEnabledChannels()
\* plotchan: calcChannels = acqServer.GetChannels('calc');
\*           acqServer.Deliver(calcChannels[0], True)   (IndexError when empty)
DeliverChannels ==
    /\ pc = "deliver"
    /\ \E n \in 0..MaxChannels :
          /\ nEnabled' = n
          /\ IF script = "plotchan"
             THEN /\ mainCall' = IF n > 0 THEN "Deliver" ELSE "GetChannels"
                  /\ pc' = IF n > 0 THEN Succ(script, "deliver") ELSE "crashed"
             ELSE /\ mainCall' = "DeliverAllEnabledChannels"
                  /\ pc' = Succ(script, "deliver")
    /\ UNCHANGED <<script, acqServer, acq, inProg, dsCreated,
                   dsStarted, dsStopped, recCreated, recClosed, startIssued,
                   waitReturned, stopLog, closeLog, timerVars, threshVars,
                   plotVars>>

\* channelToMonitor = enabledChannels[0]          (IndexError when empty)
\* queueSize = (getSamplingRate()/channelToMonitor.SamplingDivider) * 3
\* autoThreshold = AutoThreshold(channelToMonitor, queueSize, acqServer)
ConstructAutoThreshold ==
    /\ pc = "construct"
    /\ IF nEnabled = 0
       THEN /\ pc' = "crashed"
            /\ UNCHANGED <<mainCall, queueSize, queue, oldMaxValue, stopProcessing>>
       ELSE /\ \E chanRate \in 1..MaxChanRate :
                  queueSize' = chanRate * WindowSeconds
            /\ queue' = <<>>
            /\ oldMaxValue' = 0
            /\ stopProcessing' = FALSE
            /\ mainCall' = "getSamplingRate"
            /\ pc' = Succ(script, "construct")
    /\ UNCHANGED <<script, acqServer, acq, inProg, nEnabled,
                   dsCreated, dsStarted, dsStopped, recCreated, recClosed,
                   startIssued, waitReturned, stopLog, closeLog, timerVars,
                   processed, nFrames,
                   lastMon, hToggles, hQueries, plotVars>>

\* singleconnection: channelToRecord = enabledChannels[0]   (IndexError when empty)
\*                   recorder = biopacndt.AcqNdtChannelRecorder(fullpath, channelToRecord)
MakeRecorder ==
    /\ pc = "recorder"
    /\ IF nEnabled = 0
       THEN /\ pc' = "crashed"
            /\ UNCHANGED <<mainCall, recCreated>>
       ELSE /\ recCreated' = {1}
            /\ mainCall' = "AcqNdtChannelRecorder"
            /\ pc' = Succ(script, "recorder")
    /\ UNCHANGED <<script, acqServer, acq, inProg, nEnabled,
                   dsCreated, dsStarted, dsStopped, recClosed, startIssued,
                   waitReturned, stopLog, closeLog, timerVars, threshVars,
                   plotVars>>

\* singleConnectPort = acqServer.getSingleConnectionModePort()
\* dataServer = biopacndt.AcqNdtDataServer(singleConnectPort, enabledChannels)
\* dataServer.RegisterCallback(...)      (plotchan: plotData = PlotData(acqServer))
MakeDataServer ==
    /\ pc = "mkserver"
    /\ dsCreated' = {1}
    /\ mainCall' = "RegisterCallback"
    /\ buttonEnabled' = (script = "plotchan")
    /\ pc' = Succ(script, "mkserver")
    /\ UNCHANGED <<script, acqServer, acq, inProg, nEnabled,
                   dsStarted, dsStopped, recCreated, recClosed, startIssued,
                   waitReturned, stopLog, closeLog, timerVars, threshVars, chanData>>

\* dataServer.Start()
StartDataServer ==
    /\ pc = "startds"
    /\ dsStarted' = dsStarted \cup dsCreated
    /\ mainCall' = "Start"
    /\ pc' = Succ(script, "startds")
    /\ UNCHANGED <<script, acqServer, acq, inProg, nEnabled,
                   dsCreated, dsStopped, recCreated, recClosed, startIssued,
                   waitReturned, stopLog, closeLog, timerVars, threshVars,
                   plotVars>>

\* acqServer.setOutputChannel(analogOutputChan, 0.0)
ZeroOutput ==
    /\ pc = "zero"
    /\ outLog' = Append(outLog, ZeroVolts)
    /\ mainCall' = "setOutputChannel"
    /\ pc' = Succ(script, "zero")
    /\ UNCHANGED <<script, acqServer, acq, inProg, nEnabled,
                   dsCreated, dsStarted, dsStopped, recCreated, recClosed,
                   startIssued, waitReturned, stopLog, closeLog, timerPc,
                   threshVars, plotVars>>

\* raiseAnalogThread = ChangeAnalogOutputThread(acqServer, analogOutputChan)
\* raiseAnalogThread.start()
StartTimerThread ==
    /\ pc = "thread"
    /\ timerPc' = "sleeping"
    /\ pc' = Succ(script, "thread")
    /\ UNCHANGED <<script, acqServer, acq, inProg, mainCall, nEnabled,
                   dsCreated, dsStarted, dsStopped, recCreated, recClosed,
                   startIssued, waitReturned, stopLog, closeLog, outLog,
                   threshVars, plotVars>>

\* acqServer.toggleAcquisition()      # tell AcqKnowledge to begin acquiring data
StartAcquisition ==
    /\ pc = "start"
    /\ acq' = ~acq
    /\ startIssued' = TRUE
    /\ mainCall' = "toggleAcquisition"
    /\ pc' = Succ(script, "start")
    /\ UNCHANGED <<script, acqServer, inProg, nEnabled, dsCreated,
                   dsStarted, dsStopped, recCreated, recClosed, waitReturned,
                   stopLog, closeLog, timerVars, threshVars, plotVars>>

\* acqServer.WaitForAcquisitionEnd(): returns once no acquisition is in progress
WaitForAcquisitionEnd ==
    /\ pc = "wait"
    /\ ~acq
    /\ waitReturned' = TRUE
    /\ mainCall' = "WaitForAcquisitionEnd"
    /\ pc' = Succ(script, "wait")
    /\ UNCHANGED <<script, acqServer, acq, inProg, nEnabled,
                   dsCreated, dsStarted, dsStopped, recCreated, recClosed,
                   startIssued, stopLog, closeLog, timerVars, threshVars, plotVars>>

\* dataServer.Stop()      (multiconnect: for ds in dataServers: ds.Stop())
StopDataServers ==
    /\ pc = "stop"
    /\ IF dsStarted \ dsStopped # {}
       THEN /\ dsStopped' = dsStopped \cup {Min(dsStarted \ dsStopped)}
            /\ stopLog' = Append(stopLog, Min(dsStarted \ dsStopped))
            /\ mainCall' = "Stop"
            /\ pc' = pc
       ELSE /\ pc' = Succ(script, "stop")
            /\ UNCHANGED <<dsStopped, stopLog, mainCall>>
    /\ UNCHANGED <<script, acqServer, acq, inProg, nEnabled,
                   dsCreated, dsStarted, recCreated, recClosed, closeLog,
                   startIssued, waitReturned, timerVars, threshVars, plotVars>>

\* recorder.Close()       (multiconnect: for dr in dataRecorders: dr.Close())
CloseRecorders ==
    /\ pc = "close"
    /\ IF recCreated \ recClosed # {}
       THEN /\ recClosed' = recClosed \cup {Min(recCreated \ recClosed)}
            /\ closeLog' = Append(closeLog, Min(recCreated \ recClosed))
            /\ mainCall' = "Close"
            /\ pc' = pc
       ELSE /\ pc' = Succ(script, "close")
            /\ UNCHANGED <<recClosed, closeLog, mainCall>>
    /\ UNCHANGED <<script, acqServer, acq, inProg, nEnabled,
                   dsCreated, dsStarted, dsStopped, recCreated, stopLog,
                   startIssued, waitReturned, timerVars, threshVars, plotVars>>

\* multiconnect: if len(enabledChannels) > 0:
\*                   acqServer.ChangeDataConnectionPort(enabledChannels[0], 50505)
ChangeFirstPort ==
    /\ pc = "port"
    /\ mainCall' = IF nEnabled > 0 THEN "ChangeDataConnectionPort" ELSE mainCall
    /\ pc' = Succ(script, "port")
    /\ UNCHANGED <<script, acqServer, acq, inProg, nEnabled,
                   dsCreated, dsStarted, dsStopped, recCreated, recClosed,
                   startIssued, waitReturned, stopLog, closeLog, timerVars,
                   threshVars,
                   plotVars>>

\* A setup loop that leaves the last enabled channel without server and recorder.
SetupChannel_SkipsLast ==
    /\ pc = "setup"
    /\ IF Cardinality(dsCreated) < nEnabled - 1
       THEN LET eCH == Cardinality(dsCreated) + 1
            IN  /\ dsCreated' = dsCreated \cup {eCH}
                /\ recCreated' = recCreated \cup {eCH}
                /\ dsStarted' = dsStarted \cup {eCH}
                /\ mainCall' = "Start"
                /\ pc' = pc
       ELSE /\ pc' = Succ(script, "setup")
            /\ UNCHANGED <<dsCreated, recCreated, dsStarted, mainCall>>
    /\ UNCHANGED <<script, acqServer, acq, inProg, nEnabled,
                   dsStopped, recClosed, startIssued, waitReturned, stopLog,
                   closeLog, timerVars, threshVars, plotVars>>

\* multiconnect: for eCH in enabledChannels:
\*     dserver = AcqNdtDataServer(chPort, [eCH]); recorder = AcqNdtChannelRecorder(...)
\*     dataRecorders.append(recorder); dserver.Start(); dataServers.append(dserver)
SetupChannel ==
    /\ pc = "setup"
    /\ IF Cardinality(dsCreated) < nEnabled
       THEN LET eCH == Cardinality(dsCreated) + 1
            IN  /\ dsCreated' = dsCreated \cup {eCH}
                /\ recCreated' = recCreated \cup {eCH}
                /\ dsStarted' = dsStarted \cup {eCH}
                /\ mainCall' = "Start"
                /\ pc' = pc
       ELSE /\ pc' = Succ(script, "setup")
            /\ UNCHANGED <<dsCreated, recCreated, dsStarted, mainCall>>
    /\ UNCHANGED <<script, acqServer, acq, inProg, nEnabled,
                   dsStopped, recClosed, startIssued, waitReturned, stopLog,
                   closeLog, timerVars, threshVars, plotVars>>

\* simplesample: print server.GetChannelLabel(server.GetAllChannels()[0])
PrintFirstLabel ==
    /\ pc = "label"
    /\ mainCall' = "GetChannelLabel"
    /\ pc' = Succ(script, "label")
    /\ UNCHANGED <<script, acqServer, acq, inProg, nEnabled,
                   dsCreated, dsStarted, dsStopped, recCreated, recClosed,
                   startIssued, waitReturned, stopLog, closeLog, timerVars,
                   threshVars,
                   plotVars>>

\* simplesample: time.sleep(1); if server.getAcquisitionInProgress(): print ...
VerifyStarted ==
    /\ pc = "verify"
    /\ mainCall' = "getAcquisitionInProgress"
    /\ pc' = Succ(script, "verify")
    /\ UNCHANGED <<script, acqServer, acq, inProg, nEnabled, dsCreated,
                   dsStarted, dsStopped, recCreated, recClosed, startIssued,
                   waitReturned, stopLog, closeLog, timerVars, threshVars,
                   plotVars>>

----------------------------------------------------------------------------
(* plotchan: the events of the Tkinter main loop *)

\* PlotData.startAcquisition: toggleAcquisition(); the button is disabled
PressStart ==
    /\ pc = "mainloop"
    /\ buttonEnabled
    /\ acq' = ~acq
    /\ startIssued' = TRUE
    /\ buttonEnabled' = FALSE
    /\ mainCall' = "toggleAcquisition"
    /\ UNCHANGED <<script, pc, acqServer, inProg, nEnabled,
                   dsCreated, dsStarted, dsStopped, recCreated, recClosed,
                   waitReturned, stopLog, closeLog, timerVars, threshVars, chanData>>

\* PlotData.updatePlot: if len(self.__chanData) > 2: ... insertGlobalEvent(...)
UpdatePlot ==
    /\ pc = "mainloop"
    /\ mainCall' = IF chanData > 2 THEN "insertGlobalEvent" ELSE mainCall
    /\ UNCHANGED <<mainVars, acq, timerVars, threshVars, plotVars>>

\* PlotData.handleAcquiredData: self.__chanData.append(frame[0])
HandleAcquiredData ==
    /\ script = "plotchan"
    /\ dsStarted \ dsStopped # {}
    /\ startIssued
    /\ chanData < MaxFrames
    /\ chanData' = chanData + 1
    /\ UNCHANGED <<mainVars, acq, mainCall, timerVars, threshVars, buttonEnabled>>

\* the window is closed: self.__root.mainloop() returns
CloseWindow ==
    /\ pc = "mainloop"
    /\ pc' = Succ(script, "mainloop")
    /\ UNCHANGED <<script, acqServer, acq, inProg, mainCall, nEnabled,
                   dsCreated, dsStarted, dsStopped, recCreated, recClosed,
                   startIssued, waitReturned, stopLog, closeLog, timerVars,
                   threshVars,
                   plotVars>>

----------------------------------------------------------------------------
(* The server and the threads *)

\* AcqKnowledge: the running acquisition reaches its end by itself.
AcquisitionEnds ==
    /\ acq
    /\ acq' = FALSE
    /\ UNCHANGED <<mainVars, mainCall, timerVars, threshVars, plotVars>>

\* a timer that is cancelled once the data server has been stopped
TimerRun_CancelledAtStop ==
    /\ timerPc = "sleeping"
    /\ dsStopped = {}
    /\ outLog' = Append(outLog, RaisedVolts)
    /\ timerPc' = "done"
    /\ UNCHANGED <<mainVars, mainCall, acq, threshVars, plotVars>>

\* ChangeAnalogOutputThread.run: time.sleep(10); setOutputChannel(chan, 5.0)
TimerRun ==
    /\ timerPc = "sleeping"
    /\ outLog' = Append(outLog, RaisedVolts)
    /\ timerPc' = "done"
    /\ UNCHANGED <<mainVars, mainCall, acq, threshVars, plotVars>>

\* A fill step that never raises the retained maximum.
FillMax_Keeps(sample, old) == old

\* if frame[frameIndex] > self.__oldMaxValue: self.__oldMaxValue = frame[frameIndex]
FillMax(sample, old) == IF sample > old THEN sample ELSE old

\* AutoThreshold.dataHandler(index, frame, channelsInSlice) on frame f.
\* The handler's toggleAcquisition() stops the acquisition, or starts a new
\* one when the acquisition ended by itself after the handler's
\* getAcquisitionInProgress() returned true.
HandleFrame(f) ==
    /\ nFrames' = nFrames + 1
    /\ lastMon' = AmplitudeOf(f, ChannelToMonitor)
    /\ IF stopProcessing
       THEN UNCHANGED <<queue, oldMaxValue, stopProcessing, processed,
                        hToggles, hQueries, acq>>
       ELSE
       LET frameIndex == FrameIndex(ChannelToMonitor, f.chans) IN
       IF frameIndex = Len(f.amps)
       THEN UNCHANGED <<queue, oldMaxValue, stopProcessing, processed,
                        hToggles, hQueries, acq>>
       ELSE
       LET sample == f.amps[frameIndex + 1]
           seeded == IF Len(queue) = 0 THEN sample ELSE oldMaxValue
       IN  /\ processed' = Append(processed, sample)
           /\ IF Len(queue) < queueSize
              THEN /\ queue' = Append(queue, sample)
                   /\ oldMaxValue' = FillMax(sample, seeded)
                   /\ UNCHANGED <<stopProcessing, hToggles, hQueries, acq>>
              ELSE
              LET shifted == ShiftQueue(queue, sample)
                  maxValue == WindowMax(shifted)
                  voltChange == maxValue - seeded
              IN  /\ queue' = shifted
                  /\ IF ExceedsThreshold(voltChange)
                     THEN /\ hQueries' = hQueries + 1
                          /\ IF acq
                             THEN /\ hToggles' = hToggles + 1
                                  /\ acq' \in BOOLEAN
                                  /\ stopProcessing' = TRUE
                                  /\ oldMaxValue' = seeded
                             ELSE /\ oldMaxValue' = maxValue
                                  /\ UNCHANGED <<hToggles, acq, stopProcessing>>
                     ELSE /\ oldMaxValue' = maxValue
                          /\ UNCHANGED <<hQueries, hToggles, acq, stopProcessing>>

\* The data server thread of autothreshold invokes the registered callback
\* with the next frame of the acquisition.
DataHandler ==
    /\ script = "autothreshold"
    /\ dsStarted \ dsStopped # {}
    /\ startIssued
    /\ nFrames < MaxFrames
    /\ \E f \in FramesOf(nEnabled) : HandleFrame(f)
    /\ UNCHANGED <<mainVars, mainCall, timerVars, queueSize, plotVars>>

----------------------------------------------------------------------------
Next ==
    \/ QuickConnect
    \/ CheckRunning
    \/ HaltRunning
    \/ LoadTemplate
    \/ SetConnectionMethod
    \/ DeliverChannels
    \/ ConstructAutoThreshold
    \/ MakeRecorder
    \/ MakeDataServer
    \/ StartDataServer
    \/ ZeroOutput
    \/ StartTimerThread
    \/ StartAcquisition
    \/ WaitForAcquisitionEnd
    \/ StopDataServers
    \/ CloseRecorders
    \/ ChangeFirstPort
    \/ SetupChannel
    \/ PrintFirstLabel
    \/ VerifyStarted
    \/ PressStart
    \/ UpdatePlot
    \/ HandleAcquiredData
    \/ CloseWindow
    \/ AcquisitionEnds
    \/ TimerRun
    \/ DataHandler

Spec == Init /\ [][Next]_vars

\* The timer thread is a non-daemon thread: once started it is scheduled,
\* and the interpreter does not exit before it has run.
FairSpec == Spec /\ WF_vars(TimerRun)

----------------------------------------------------------------------------
(* Properties *)

LastK(seq, k) == SubSeq(seq, Len(seq) - k + 1, Len(seq))
Smaller(a, b) == IF a < b THEN a ELSE b
Range(seq) == {seq[k] : k \in 1..Len(seq)}
Greatest(S) == CHOOSE x \in S : \A y \in S : y <= x

\* dataHandler took a sample from its frame in this step
TookSample == Len(processed') = Len(processed) + 1

RememberedMax == Greatest(Range(queue) \cup {oldMaxValue})

\* a frame was delivered whose sample of the monitored channel exceeds all
\* the handler remembers by more than 1, while the acquisition is in progress
MonitoredJump ==
    /\ nFrames' = nFrames + 1
    /\ lastMon' # NoSample
    /\ Len(queue) > 0
    /\ acq
    /\ lastMon' > RememberedMax + 1

\* C2 as stated: every such sample leads to a toggleAcquisition call.
C2_EveryJumpStops ==
    [][ MonitoredJump => hToggles' = hToggles + 1 ]_vars

\* C2, amended: once the window holds `size` samples and until the handler
\* has requested a stop, a sample of the monitored channel that is delivered
\* while the acquisition is in progress and exceeds all the handler remembers
\* by more than 1 leads to a toggleAcquisition call.
C2_JumpOnFullWindowStops ==
    [][ (MonitoredJump /\ Len(queue) = queueSize /\ ~stopProcessing)
          => hToggles' = hToggles + 1 ]_vars

C2_Witness ==
    /\ hToggles = 1
    /\ nFrames = Len(processed)
    /\ lastMon # NoSample
    /\ lastMon = queue[Len(queue)]
    /\ lastMon > oldMaxValue + 1

\* C3: the queue never holds more than `size` samples, and from the call
\* that brings it to `size` samples on its length is exactly `size`.
C3_FixedSizeWindow ==
    /\ Len(queue) <= queueSize
    /\ Len(queue) = Smaller(Len(processed), queueSize)

C3_Witness ==
    /\ queueSize > 0
    /\ Len(processed) >= queueSize + 2
    /\ Len(queue) = queueSize

\* C4: the queue holds the most recent samples of the monitored channel:
\* every sample the handler takes is the monitored channel's sample of the
\* frame, and the queue is the last min(n, size) of the n samples taken.
C4_QueueHoldsMonitoredSamples ==
    [][ TookSample =>
          /\ lastMon' # NoSample
          /\ processed'[Len(processed')] = lastMon'
          /\ queue' = LastK(processed', Smaller(Len(processed'), queueSize))
      ]_vars

\* What holds of the queue whatever the channel of the samples taken: it is
\* the last min(n, size) of them in arrival order.
QueueIsLastTaken ==
    queue = LastK(processed, Smaller(Len(processed), queueSize))

\* C5: when AcqNdtQuickConnect finds no server, the script exits and
\* issues no further call: AcqNdtQuickConnect stays main's last call, there
\* is no toggle and no LoadTemplate, no data server and no recorder is
\* constructed, no callback runs and no timer thread is started.
C5_NoCallAfterFailedConnect ==
    acqServer = "none" =>
        /\ pc = "exited"
        /\ mainCall = "AcqNdtQuickConnect"
        /\ ~startIssued
        /\ dsCreated = {} /\ dsStarted = {} /\ recCreated = {}
        /\ timerPc = "unstarted" /\ outLog = <<>>
        /\ nFrames = 0 /\ hToggles = 0 /\ hQueries = 0 /\ chanData = 0

C5_Witness == acqServer = "none" /\ pc = "exited"

\* The data servers main() of script s constructs in a run with n enabled
\* channels.
ServersOf(s, n) ==
    CASE s = "multiconnect" -> 1..n
      [] s = "simplesample" -> {}
      [] OTHER -> {1}

\* C6: the toggleAcquisition call that starts the acquisition is issued only
\* after Start() has been called on every data server the script constructs.
C6_ServersStartedBeforeAcquisition ==
    (startIssued /\ script \in {"autothreshold", "singleconnection",
                                "multiconnect", "plotchan"}) =>
        /\ dsCreated = ServersOf(script, nEnabled)
        /\ dsStarted = dsCreated

C6_Witness ==
    /\ startIssued
    /\ script = "multiconnect"
    /\ Cardinality(dsStarted) = MaxChannels

\* C7: no acquisition is in progress when LoadTemplate is called.
C7_IdleAtLoadTemplate ==
    [][ (pc = "load" /\ pc' # "load") => ~acq ]_vars

\* C8: Stop() is called on a data server only after WaitForAcquisitionEnd
\* has returned, and a recorder's Close() only after Stop() has been called
\* on every data server.
C8_StreamThenStopThenClose ==
    /\ (script \in {"autothreshold", "singleconnection", "multiconnect"}
          /\ dsStopped # {}) => (waitReturned /\ startIssued)
    /\ (script \in {"singleconnection", "multiconnect"} /\ recClosed # {})
          => (dsStopped = ServersOf(script, nEnabled) /\ dsStopped = dsCreated)

C8_Witness ==
    /\ script = "multiconnect"
    /\ Cardinality(dsStopped) = MaxChannels
    /\ recClosed # {}

\* The number of setOutputChannel(channel, 5.0) calls issued so far.
RaisedWrites == Cardinality({k \in 1..Len(outLog) : outLog[k] = RaisedVolts})

\* C9: the timer thread issues setOutputChannel(channel, 5.0) exactly once
\* in every run that reaches its start: never twice, and once started it
\* comes to issue the call whatever main() and the acquisition have done
\* meanwhile.
C9_TimerIssuesItsCall ==
    /\ [](RaisedWrites <= 1)
    /\ [](timerPc = "done" => RaisedWrites = 1)
    /\ (timerPc = "sleeping") ~> (timerPc = "done" /\ RaisedWrites = 1)

\* the timer is still pending when the acquisition has ended and main() has
\* called dataServer.Stop() and returned
C9_Witness ==
    /\ timerPc = "sleeping"
    /\ ~acq
    /\ dsStopped = {1}
    /\ pc = "done"

\* C10: the write of 0.0 precedes the write of 5.0, and 5.0 is the last
\* value written.
C10_ZeroThenRaised ==
    /\ outLog \in {<<>>, <<ZeroVolts>>, <<ZeroVolts, RaisedVolts>>}
    /\ timerPc = "done" => outLog = <<ZeroVolts, RaisedVolts>>

C10_Witness == outLog = <<ZeroVolts, RaisedVolts>> /\ pc = "wait"

\* number of calls the log records on object i
TimesIn(log, i) == Cardinality({k \in 1..Len(log) : log[k] = i})

\* multiconnect has left its setup loop
PastSetupLoop == pc \in {"start", "wait", "stop", "close", "done"}

\* C11: in multiconnect, once the setup loop is over the started data servers
\* and the recorders are each as many as the channels DeliverAllEnabledChannels
\* returned (one per channel); no server is stopped and no recorder closed
\* more than once, and when main has finished Stop() was called exactly once
\* on each of those servers and Close() exactly once on each of those recorders.
C11_OneServerAndRecorderPerChannel ==
    script = "multiconnect" =>
        /\ PastSetupLoop =>
              /\ dsStarted = 1..nEnabled
              /\ dsCreated = dsStarted
              /\ recCreated = 1..nEnabled
        /\ \A i \in 1..MaxChannels :
              /\ TimesIn(stopLog, i) <= (IF i \in dsStarted THEN 1 ELSE 0)
              /\ TimesIn(closeLog, i) <= (IF i \in recCreated THEN 1 ELSE 0)
        /\ pc = "done" =>
              \A i \in 1..nEnabled :
                 TimesIn(stopLog, i) = 1 /\ TimesIn(closeLog, i) = 1

C11_Witness ==
    /\ script = "multiconnect" /\ pc = "done"
    /\ nEnabled = MaxChannels
    /\ Len(stopLog) = MaxChannels /\ Len(closeLog) = MaxChannels

\* dataHandler was invoked in this step while the window was still filling
FillStep == nFrames' = nFrames + 1 /\ Len(queue) < queueSize

\* the sample dataHandler took from its frame in this step
Taken == processed'[Len(processed')]

\* C12 as stated: while the queue holds fewer than `size` samples, dataHandler
\* only appends the sample and raises the retained maximum to it when it is
\* larger (otherwise the retained maximum stays), and it calls neither
\* getAcquisitionInProgress nor toggleAcquisition.
C12_FillOnlyRaisesMaximum ==
    [][ FillStep =>
          /\ hQueries' = hQueries /\ hToggles' = hToggles
          /\ stopProcessing' = stopProcessing
          /\ IF TookSample
             THEN /\ queue' = Append(queue, Taken)
                  /\ oldMaxValue' = IF Taken > oldMaxValue THEN Taken
                                                           ELSE oldMaxValue
             ELSE UNCHANGED <<queue, oldMaxValue>> ]_vars

\* C12 amended: while the queue holds fewer than `size` samples, dataHandler
\* only appends the sample; the sample placed into the empty queue becomes the
\* retained maximum whatever its value, a later one raises the retained
\* maximum when it is larger; and it calls neither getAcquisitionInProgress
\* nor toggleAcquisition.
C12_FillSeedsThenRaisesMaximum ==
    [][ FillStep =>
          /\ hQueries' = hQueries /\ hToggles' = hToggles
          /\ stopProcessing' = stopProcessing
          /\ IF TookSample
             THEN /\ queue' = Append(queue, Taken)
                  /\ oldMaxValue' = IF Len(queue) = 0 \/ Taken > oldMaxValue
                                     THEN Taken ELSE oldMaxValue
             ELSE UNCHANGED <<queue, oldMaxValue>> ]_vars

C12_Witness ==
    /\ Len(queue) < queueSize
    /\ queue = <<-1, 2>> /\ oldMaxValue = 2
    /\ hQueries = 0 /\ hToggles = 0

============================================================================
